---- MODULE Spec2Model ----
(***************************************************************************)
(* BlockFS: a sharded block store for 3-D volumes.                         *)
(*                                                                         *)
(* The model follows blockfs/directory.py (class Directory: address        *)
(* arithmetic, directory entry codec, create/open, the index writer        *)
(* thread, write_block, read_block, close) and blockfs/writer.py (the      *)
(* shard writer process and its BlockWriter handle).                       *)
(*                                                                         *)
(* Files are modelled at the level the code touches them: the index file   *)
(* is header fields + metadata + a byte table; a shard file is the         *)
(* sequence of encoded chunks appended to it plus the number of bytes      *)
(* that have left the writer's userspace buffer.                           *)
(***************************************************************************)
EXTENDS Integers, Sequences, FiniteSets, TLC

VARIABLES
    ctor,          \* the arguments the handle was constructed with
    self,          \* the Directory handle (fields set by __init__ / create)
    index_file,    \* the index ("directory") file on disk
    index_buf,     \* the index writer's buffered, not yet flushed, write
    shard_file,    \* shard name -> sequence of chunks appended by its writer
    shard_size,    \* shard name -> bytes of the shard that are in the file
    writers,       \* self.writers is not None
    queue_depth,   \* the queue_depth the BlockWriters were constructed with
    q_in,          \* shard -> inbound queue of its BlockWriter
    upqueue,       \* self.upqueue: publication records for the index writer
    wpc,           \* shard -> state of the block_writer_process
    position,      \* shard -> the writer process's `position`
    dwpc,          \* state of the directory_writer thread
    pc,            \* where the owning (client) thread is
    accepted,      \* history: the write_block calls that returned
    emitted,       \* history: shard -> publication records it has put
    probe          \* result of the last pure-function application

vars == <<ctor, self, index_file, index_buf, shard_file, shard_size, writers,
          queue_depth, q_in, upqueue, wpc, position, dwpc, pc, accepted,
          emitted, probe>>

-----------------------------------------------------------------------------
(* Bounds of the model *)

MaxWrites == 2        \* write_block calls per behaviour
MaxShards == 2        \* number of block files
MaxExtent == 3        \* largest extent along an axis
SmallDepth == 1       \* a queue_depth below the number of writes

-----------------------------------------------------------------------------
(* Program constants *)

None == -1                    \* Python's None for optional integer arguments
HEADER == "BlockFS"           \* Directory.HEADER
HEADER_LEN == 8
CURRENT_VERSION == "1.0.0"
BLOSC_HEADER == 16            \* "Blosc has a header of size 16"
EOT == "End of transmission"

Min(a, b) == IF a < b THEN a ELSE b

RECURSIVE Pow(_, _)
Pow(b, e) == IF e = 0 THEN 1 ELSE b * Pow(b, e - 1)

RECURSIVE FloorLog2(_)
FloorLog2(v) == IF v <= 1 THEN 0 ELSE 1 + FloorLog2(v \div 2)

\* int(np.log(v) / np.log(2) + 1)
LogBits(v) == FloorLog2(v) + 1

-----------------------------------------------------------------------------
(* Directory.__init__ *)

offsetof(d, x, y, z) ==
    d.x_stride * (x \div d.x_block_size) +
    d.y_stride * (y \div d.y_block_size) +
    d.z_stride * (z \div d.z_block_size)

DefaultYStride(a) == (a.x_extent + a.x_block_size - 1) \div a.x_block_size

DefaultZStride(a, y_stride) ==
    (y_stride * a.y_extent + a.y_block_size - 1) \div a.y_block_size

DefaultOffsetBits(a, xs, ys, zs) ==
    LET s == [x_stride |-> xs, y_stride |-> ys, z_stride |-> zs,
              x_block_size |-> a.x_block_size,
              y_block_size |-> a.y_block_size,
              z_block_size |-> a.z_block_size]
        last_offset == offsetof(s, a.x_extent + a.x_block_size - 1,
                                   a.y_extent + a.y_block_size - 1,
                                   a.z_extent + a.z_block_size - 1)
    IN  LogBits(last_offset)

DefaultSizeBits(a) ==
    LET largest_size == a.x_block_size * a.y_block_size * a.z_block_size
                        * a.itemsize + BLOSC_HEADER
    IN  LogBits(largest_size)

DefaultBlockFilenames(n_filenames) == [i \in 1..n_filenames |-> i]

\* class Compression(enum.Enum): the member names
Compression == {"zstd", "blosclz", "lz4", "lz4hc", "zlib"}

\* a member of the Compression enum, and a plain str: only the member has
\* a .name
CompressionMember(name) == [enum |-> TRUE, name |-> name]
PlainStr(s) == [enum |-> FALSE, name |-> s]

\* the keyword arguments of Directory(...) that the caller may leave out
DefaultCompression == CompressionMember("zstd")
DefaultCompressionLevel == 5
NoMetadata == <<>>

Directory(a) ==
    LET block_filenames == IF a.block_filenames = <<>>
                           THEN DefaultBlockFilenames(a.n_filenames)
                           ELSE a.block_filenames
        xs == IF a.x_stride = None THEN 1 ELSE a.x_stride
        ys == IF a.y_stride = None THEN DefaultYStride(a) ELSE a.y_stride
        zs == IF a.z_stride = None THEN DefaultZStride(a, ys) ELSE a.z_stride
        no == IF a.n_offset_bits = None
              THEN DefaultOffsetBits(a, xs, ys, zs) ELSE a.n_offset_bits
        ns == IF a.n_size_bits = None
              THEN DefaultSizeBits(a) ELSE a.n_size_bits
        compression == IF "compression" \in DOMAIN a
                       THEN a.compression ELSE DefaultCompression
        compression_level == IF "compression_level" \in DOMAIN a
                             THEN a.compression_level
                             ELSE DefaultCompressionLevel
        metadata == IF "metadata" \in DOMAIN a
                    THEN a.metadata ELSE NoMetadata
    IN  [x_extent |-> a.x_extent, y_extent |-> a.y_extent,
         z_extent |-> a.z_extent, itemsize |-> a.itemsize,
         x_block_size |-> a.x_block_size, y_block_size |-> a.y_block_size,
         z_block_size |-> a.z_block_size,
         block_filenames |-> block_filenames,
         x_stride |-> xs, y_stride |-> ys, z_stride |-> zs,
         n_offset_bits |-> no, n_size_bits |-> ns,
         directory_entry_size |-> (no + ns + 7) \div 8,
         directory_offset |-> a.directory_offset,
         compression |-> compression,
         compression_level |-> compression_level,
         metadata |-> metadata]

get_block_size(d, x, y, z) ==
    << Min(d.z_extent - z, d.z_block_size),
       Min(d.y_extent - y, d.y_block_size),
       Min(d.x_extent - x, d.x_block_size) >>

-----------------------------------------------------------------------------
(* The directory entry codec *)

\* one byte more than the entry is wide is stored
encode_directory_entry_wide(d, offset, size) ==
    LET offset_and_size == offset + size * Pow(2, d.n_offset_bits)
    IN  [idx \in 1..(d.directory_entry_size + 1) |->
            (offset_and_size \div Pow(256, idx - 1)) % 256]

encode_directory_entry(d, offset, size) ==
    LET offset_and_size == offset + size * Pow(2, d.n_offset_bits)
    IN  [idx \in 1..d.directory_entry_size |->
            (offset_and_size \div Pow(256, idx - 1)) % 256]

RECURSIVE Accumulate(_, _)
Accumulate(a, n) ==
    IF n = 0 THEN 0 ELSE Accumulate(a, n - 1) + a[n] * Pow(256, n - 1)

\* the offset masked with the width of the size field
decode_directory_entry_swapped_mask(d, a) ==
    LET accumulator == Accumulate(a, Len(a))
        offset == accumulator % Pow(2, d.n_size_bits)
        size == (accumulator \div Pow(2, d.n_offset_bits))
                % Pow(2, d.n_size_bits)
    IN  <<offset, size>>

decode_directory_entry(d, a) ==
    LET accumulator == Accumulate(a, Len(a))
        offset == accumulator % Pow(2, d.n_offset_bits)
        size == (accumulator \div Pow(2, d.n_offset_bits))
                % Pow(2, d.n_size_bits)
    IN  <<offset, size>>

-----------------------------------------------------------------------------
(* The index file: Directory.create and Directory.open *)

RECURSIVE DecLen(_)
DecLen(n) == IF n < 10 THEN 1 ELSE 1 + DecLen(n \div 10)

EmptyFile == [header |-> "", md_size |-> 0, dir_offset |-> 0,
              metadata |-> <<>>, md_len |-> 0, table |-> <<>>]

\* metadata = self.metadata.copy(), then the sixteen keys of the format are
\* assigned over it
Metadata(d) ==
    [XBlockSize |-> d.x_block_size, YBlockSize |-> d.y_block_size,
     ZBlockSize |-> d.z_block_size, DType |-> d.itemsize,
     NOffsetBits |-> d.n_offset_bits, NSizeBits |-> d.n_size_bits,
     XExtent |-> d.x_extent, YExtent |-> d.y_extent, ZExtent |-> d.z_extent,
     BlockFilenames |-> d.block_filenames,
     XStride |-> d.x_stride, YStride |-> d.y_stride, ZStride |-> d.z_stride,
     Compression |-> d.compression.name,
     CompressionLvl |-> d.compression_level,
     Version |-> CURRENT_VERSION]
    @@ d.metadata

\* len(json.dumps(metadata).encode("UTF-8")): the sixteen keys and their
\* punctuation are the same for every store, the numbers contribute their
\* decimal digits, the compression its name, an application key its
\* quoted name, ": ", its value and ", "
JsonKeyChars == 257

FormatKeys ==
    {"XBlockSize", "YBlockSize", "ZBlockSize", "DType", "NOffsetBits",
     "NSizeBits", "XExtent", "YExtent", "ZExtent", "BlockFilenames",
     "XStride", "YStride", "ZStride", "Compression", "CompressionLvl",
     "Version"}

ApplicationMetadata(md) == [key \in (DOMAIN md) \ FormatKeys |-> md[key]]

RECURSIVE AppJsonLen(_)
AppJsonLen(app) ==
    IF DOMAIN app = {} THEN 0
    ELSE LET key == CHOOSE k \in DOMAIN app : TRUE
         IN  Len(key) + 2 + 2 + DecLen(app[key]) + 2
             + AppJsonLen([k \in (DOMAIN app) \ {key} |-> app[k]])

RECURSIVE SumDecLen(_, _)
SumDecLen(f, n) ==
    IF n = 0 THEN 0
    ELSE SumDecLen(f, n - 1) + DecLen(f[n]) + 2 + (IF n > 1 THEN 2 ELSE 0)

JsonLen(md) ==
    JsonKeyChars
    + DecLen(md.XBlockSize) + DecLen(md.YBlockSize) + DecLen(md.ZBlockSize)
    + DecLen(md.NOffsetBits) + DecLen(md.NSizeBits)
    + DecLen(md.XExtent) + DecLen(md.YExtent) + DecLen(md.ZExtent)
    + DecLen(md.XStride) + DecLen(md.YStride) + DecLen(md.ZStride)
    + SumDecLen(md.BlockFilenames, Len(md.BlockFilenames))
    + Len(md.Compression) + DecLen(md.CompressionLvl)
    + AppJsonLen(ApplicationMetadata(md))

\* no handle: open() raised, or the constructor has not run
NoHandle == [block_filenames |-> <<>>]

\* create() that leaves the two length words out of the index base
CreatedFileNoLengthWords(d) ==
    LET metadata == Metadata(d)
        json_md == JsonLen(metadata)
        directory_offset == HEADER_LEN + json_md
    IN  [header |-> HEADER, md_size |-> json_md,
         dir_offset |-> directory_offset,
         metadata |-> metadata, md_len |-> json_md, table |-> <<>>]

\* the file written by create(): header, (md_size, dir_offset), json, no table
CreatedFile(d) ==
    LET metadata == Metadata(d)
        json_md == JsonLen(metadata)
        directory_offset == HEADER_LEN + 8 + json_md
    IN  [header |-> HEADER, md_size |-> json_md,
         dir_offset |-> directory_offset,
         metadata |-> metadata, md_len |-> json_md, table |-> <<>>]

StSize(f) ==
    IF f.header = "" THEN 0 ELSE HEADER_LEN + 8 + f.md_len + Len(f.table)

\* open() that does not hand the stored strides to the constructor
OpenDefaultStrides(f) ==
    LET md == f.metadata
    IN  Directory([x_extent |-> md.XExtent, y_extent |-> md.YExtent,
                   z_extent |-> md.ZExtent, itemsize |-> md.DType,
                   n_filenames |-> None,
                   x_block_size |-> md.XBlockSize,
                   y_block_size |-> md.YBlockSize,
                   z_block_size |-> md.ZBlockSize,
                   block_filenames |-> md.BlockFilenames,
                   x_stride |-> None, y_stride |-> None, z_stride |-> None,
                   n_offset_bits |-> md.NOffsetBits,
                   n_size_bits |-> md.NSizeBits,
                   directory_offset |-> f.dir_offset,
                   compression |-> PlainStr(md.Compression),
                   compression_level |-> md.CompressionLvl,
                   metadata |-> ApplicationMetadata(md)])

\* open() that drops the keys it does not know
OpenNoApplicationMetadata(f) ==
    LET md == f.metadata
    IN  Directory([x_extent |-> md.XExtent, y_extent |-> md.YExtent,
                   z_extent |-> md.ZExtent, itemsize |-> md.DType,
                   n_filenames |-> None,
                   x_block_size |-> md.XBlockSize,
                   y_block_size |-> md.YBlockSize,
                   z_block_size |-> md.ZBlockSize,
                   block_filenames |-> md.BlockFilenames,
                   x_stride |-> md.XStride, y_stride |-> md.YStride,
                   z_stride |-> md.ZStride,
                   n_offset_bits |-> md.NOffsetBits,
                   n_size_bits |-> md.NSizeBits,
                   directory_offset |-> f.dir_offset,
                   compression |-> PlainStr(md.Compression),
                   compression_level |-> md.CompressionLvl,
                   metadata |-> NoMetadata])

\* the keys whose values open() passes on to the constructor: a key that is
\* absent leaves its local variable unassigned and the call raises
KeysOpenUses ==
    {"XBlockSize", "YBlockSize", "ZBlockSize", "DType", "NOffsetBits",
     "NSizeBits", "XExtent", "YExtent", "ZExtent", "BlockFilenames",
     "XStride", "YStride", "ZStride", "Compression", "CompressionLvl"}

\* Directory.open: the handle built from what the file holds
Open(f) ==
    LET md == f.metadata
    IN  IF f.header # HEADER THEN NoHandle
        ELSE IF ~(KeysOpenUses \subseteq DOMAIN md) THEN NoHandle
        ELSE
        Directory([x_extent |-> md.XExtent, y_extent |-> md.YExtent,
                   z_extent |-> md.ZExtent, itemsize |-> md.DType,
                   n_filenames |-> None,
                   x_block_size |-> md.XBlockSize,
                   y_block_size |-> md.YBlockSize,
                   z_block_size |-> md.ZBlockSize,
                   block_filenames |-> md.BlockFilenames,
                   x_stride |-> md.XStride, y_stride |-> md.YStride,
                   z_stride |-> md.ZStride,
                   n_offset_bits |-> md.NOffsetBits,
                   n_size_bits |-> md.NSizeBits,
                   directory_offset |-> f.dir_offset,
                   compression |-> PlainStr(md.Compression),
                   compression_level |-> md.CompressionLvl,
                   metadata |-> ApplicationMetadata(md)])

-----------------------------------------------------------------------------
(* Blocks, the codec and the read path *)

Volume(shape) == shape[1] * shape[2] * shape[3]

Zeros(shape) == [shape |-> shape, v |-> 0]

\* raised by blosc.decode / reshape
ReadError == [shape |-> <<0, 0, 0>>, v |-> -1]

\* block.astype(self.dtype)
AsType(d, block) ==
    [shape |-> block.shape, v |-> block.v % Pow(256, d.itemsize)]

\* len(blosc.encode(a)): a function of the content; compressible content
\* (odd values here) shrinks to little more than the header, incompressible
\* content is passed through behind the header
EncodedSize(d, a) ==
    IF a.v % 2 = 1 THEN BLOSC_HEADER + 1
    ELSE Volume(a.shape) * d.itemsize + BLOSC_HEADER

\* fd.seek(offset); fd.read(size); blosc.decode(...): the bytes decode to a
\* block only if they are exactly one encoded chunk present in the file
ShardDecode(chunks, size_on_disk, offset, size) ==
    LET hits == {k \in 1..Len(chunks) :
                    /\ chunks[k].start = offset
                    /\ chunks[k].count = size
                    /\ offset + size <= size_on_disk}
    IN  IF hits = {} THEN ReadError
        ELSE chunks[CHOOSE k \in hits : TRUE].a

EntryAt(f, pos, n) ==
    LET base == HEADER_LEN + 8 + f.md_len
    IN  [i \in 1..n |-> f.table[pos - base + i]]

\* read_block: directory_offset = self.directory_offset + offset *
\* self.directory_entry_size
ReadPosition(d, offset) == d.directory_offset + offset * d.directory_entry_size

\* the module docstring: directory_entry_offset = DirOffset + offset *
\* (NOffsetBits + NSizeBits) // 8
DocumentedEntryPosition(d, offset) ==
    d.directory_offset + (offset * (d.n_offset_bits + d.n_size_bits)) \div 8

read_block(d, f, shards, sizes, x, y, z) ==
    LET offset == offsetof(d, x, y, z)
        shape == get_block_size(d, x, y, z)
        idx == offset % Len(d.block_filenames)
        directory_offset == ReadPosition(d, offset)
    IN  IF StSize(f) < directory_offset + d.directory_entry_size
        THEN Zeros(shape)
        ELSE LET m == EntryAt(f, directory_offset, d.directory_entry_size)
                 e == decode_directory_entry(d, m)
                 name == d.block_filenames[idx + 1]
                 data == ShardDecode(shards[name], sizes[name], e[1], e[2])
             IN  IF e[2] = 0 THEN Zeros(shape)
                 ELSE IF data = ReadError THEN ReadError
                 ELSE IF Volume(data.shape) # Volume(shape) THEN ReadError
                 ELSE [shape |-> shape, v |-> data.v]

-----------------------------------------------------------------------------
(* The stores the model constructs *)

BlocksAlong(extent, block_size) == (extent + block_size - 1) \div block_size

\* n_offset_bits a caller supplies so that every shard position fits
SuppliedOffsetBits == 8

CtorArgs ==
    { [x_extent |-> MaxExtent, y_extent |-> 1, z_extent |-> 2,
       itemsize |-> 1, n_filenames |-> n,
       x_block_size |-> 2, y_block_size |-> 2, z_block_size |-> 1,
       block_filenames |-> <<>>,
       x_stride |-> IF st THEN 1 ELSE None,
       y_stride |-> IF st THEN BlocksAlong(MaxExtent, 2) ELSE None,
       z_stride |-> IF st THEN BlocksAlong(MaxExtent, 2) * BlocksAlong(1, 2)
                    ELSE None,
       n_offset_bits |-> IF ob THEN SuppliedOffsetBits ELSE None,
       n_size_bits |-> None,
       directory_offset |-> None] :
      n \in 1..MaxShards, st \in BOOLEAN, ob \in BOOLEAN }

AllShards == 1..MaxShards
Shards == 1..Len(self.block_filenames)

\* block-aligned coordinates inside the extents
Aligned(extent, block_size) ==
    {c \in 0..(extent - 1) : c % block_size = 0}

Coords(d) ==
    Aligned(d.x_extent, d.x_block_size)
    \X Aligned(d.y_extent, d.y_block_size)
    \X Aligned(d.z_extent, d.z_block_size)

NoProbe == [kind |-> "none"]

At(where) == [at |-> where, i |-> 0]

Init ==
    /\ ctor \in CtorArgs
    /\ self = Directory(ctor)
    /\ index_file = EmptyFile
    /\ index_buf = <<>>
    /\ shard_file = [s \in AllShards |-> <<>>]
    /\ shard_size = [s \in AllShards |-> 0]
    /\ writers = FALSE
    /\ queue_depth = None
    /\ q_in = [s \in AllShards |-> <<>>]
    /\ upqueue = <<>>
    /\ wpc = [s \in AllShards |-> "none"]
    /\ position = [s \in AllShards |-> 0]
    /\ dwpc = "none"
    /\ pc = At("new")
    /\ accepted = <<>>
    /\ emitted = [s \in AllShards |-> <<>>]
    /\ probe = NoProbe

-----------------------------------------------------------------------------
(* Directory.create *)

create ==
    /\ pc \in {At("new"), At("constructed")}
    /\ index_file' = CreatedFile(self)
    /\ self' = [self EXCEPT !.directory_offset = CreatedFile(self).dir_offset]
    /\ pc' = At("idle")
    /\ UNCHANGED <<ctor, queue_depth,
                   index_buf, shard_file, shard_size, writers, q_in,
                   upqueue, wpc, position, dwpc, accepted, emitted, probe>>

-----------------------------------------------------------------------------
(* Directory.start_writer_processes, Directory.write_block *)

WriterMessage(a, directory_offset) ==
    [kind |-> "msg", a |-> a, directory_offset |-> directory_offset]

EOTMessage == [kind |-> EOT]

\* one BlockWriter per block file, each with an empty inbound queue and a
\* process that has opened its file and taken the end as its position
StartedWpc == [s \in AllShards |-> IF s \in Shards THEN "run" ELSE "none"]
\* fd.seek(0, os.SEEK_END) is left out: every worker starts at position 0
StartedPositionZero == [s \in AllShards |-> 0]

StartedPosition ==
    [s \in AllShards |-> IF s \in Shards THEN shard_size[s] ELSE 0]
StartedQueues == [s \in AllShards |-> <<>>]

DEFAULT_QUEUE_DEPTH == 10

\* new writers and a new indexer are made whether or not some exist
start_writer_processes_unguarded(depth) ==
    /\ pc = At("idle")
    /\ writers' = TRUE
    /\ queue_depth' = depth
    /\ q_in' = StartedQueues
    /\ wpc' = StartedWpc
    /\ position' = StartedPosition
    /\ dwpc' = "run"
    /\ UNCHANGED <<ctor, self, index_file, index_buf, shard_file, shard_size,
                   upqueue, pc, accepted, emitted, probe>>

\* if self.writers is not None: return
start_writer_processes(depth) ==
    /\ pc = At("idle")
    /\ writers' = TRUE
    /\ queue_depth' = IF writers THEN queue_depth ELSE depth
    /\ q_in' = IF writers THEN q_in ELSE StartedQueues
    /\ wpc' = IF writers THEN wpc ELSE StartedWpc
    /\ position' = IF writers THEN position ELSE StartedPosition
    /\ dwpc' = IF writers THEN dwpc ELSE "run"
    /\ UNCHANGED <<ctor, self, index_file, index_buf, shard_file, shard_size,
                   upqueue, pc, accepted, emitted, probe>>

\* block contents: one compressible, one incompressible, both non-zero
Payloads == {1, 2}

Blocks(d) ==
    { [shape |-> get_block_size(d, c[1], c[2], c[3]), v |-> v] :
        c \in Coords(d), v \in Payloads }

ShardOf(d, offset) == (offset % Len(d.block_filenames)) + 1

\* the assert on the block shape is left out
write_block_unchecked(block, x, y, z) ==
    /\ pc = At("idle")
    /\ Len(accepted) < MaxWrites
    /\ LET offset == offsetof(self, x, y, z)
           idx == ShardOf(self, offset)
           q0 == IF writers THEN q_in ELSE StartedQueues
           msg == WriterMessage(AsType(self, block), offset)
       IN  /\ q_in' = [q0 EXCEPT ![idx] = Append(@, msg)]
           /\ accepted' = Append(accepted,
                                 [x |-> x, y |-> y, z |-> z, block |-> block,
                                  directory_offset |-> offset])
    /\ writers' = TRUE
    /\ queue_depth' = IF writers THEN queue_depth ELSE DEFAULT_QUEUE_DEPTH
    /\ wpc' = IF writers THEN wpc ELSE StartedWpc
    /\ position' = IF writers THEN position ELSE StartedPosition
    /\ dwpc' = IF writers THEN dwpc ELSE "run"
    /\ UNCHANGED <<ctor, self, index_file, index_buf, shard_file, shard_size,
                   upqueue, pc, emitted, probe>>

\* assert(tuple(block.shape) == expected_block_size) fails before anything
\* is started or enqueued; otherwise the block goes to its shard writer
write_block(block, x, y, z) ==
    /\ pc = At("idle")
    /\ Len(accepted) < MaxWrites
    /\ block.shape = get_block_size(self, x, y, z)
    /\ LET offset == offsetof(self, x, y, z)
           idx == ShardOf(self, offset)
           q0 == IF writers THEN q_in ELSE StartedQueues
           msg == WriterMessage(AsType(self, block), offset)
       IN  /\ q_in' = [q0 EXCEPT ![idx] = Append(@, msg)]
           /\ accepted' = Append(accepted,
                                 [x |-> x, y |-> y, z |-> z, block |-> block,
                                  directory_offset |-> offset])
    /\ writers' = TRUE
    /\ queue_depth' = IF writers THEN queue_depth ELSE DEFAULT_QUEUE_DEPTH
    /\ wpc' = IF writers THEN wpc ELSE StartedWpc
    /\ position' = IF writers THEN position ELSE StartedPosition
    /\ dwpc' = IF writers THEN dwpc ELSE "run"
    /\ UNCHANGED <<ctor, self, index_file, index_buf, shard_file, shard_size,
                   upqueue, pc, emitted, probe>>

-----------------------------------------------------------------------------
(* writer.block_writer_process *)

\* position is not advanced
NextPositionStale(pos, count) == pos

NextPosition(pos, count) == pos + count

\* bytes of the shard that are in the file after fd.write(block): the
\* buffered writer may keep the block, or all pending bytes, in its buffer
FlushedAfterWrite(on_disk, pos, count) == {on_disk, pos, pos + count}

PublicationRecord(directory_offset, pos, count) ==
    [kind |-> "rec", directory_offset |-> directory_offset,
     offset |-> pos, size |-> count]

WriterWrite(s) ==
    /\ wpc[s] = "run"
    /\ q_in[s] # <<>>
    /\ Head(q_in[s]).kind = "msg"
    /\ LET msg == Head(q_in[s])
           rec(c) == PublicationRecord(msg.directory_offset, position[s], c)
           count == EncodedSize(self, msg.a)
       IN  \E on_disk \in FlushedAfterWrite(shard_size[s], position[s], count) :
             /\ shard_file' = [shard_file EXCEPT ![s] =
                    Append(@, [start |-> position[s], count |-> count,
                               a |-> msg.a])]
             /\ shard_size' = [shard_size EXCEPT ![s] = on_disk]
             /\ upqueue' = Append(upqueue, rec(count))
             /\ emitted' = [emitted EXCEPT ![s] = Append(@, rec(count))]
             /\ position' = [position EXCEPT ![s] = NextPosition(@, count)]
    /\ q_in' = [q_in EXCEPT ![s] = Tail(@)]
    /\ UNCHANGED <<ctor, queue_depth,
                   self, index_file, index_buf, writers, wpc, dwpc, pc,
                   accepted, probe>>

\* EOT: leave the loop; leaving the with-block closes (flushes) the file
WriterEOT(s) ==
    /\ wpc[s] = "run"
    /\ q_in[s] # <<>>
    /\ Head(q_in[s]).kind = EOT
    /\ q_in' = [q_in EXCEPT ![s] = Tail(@)]
    /\ shard_size' = [shard_size EXCEPT ![s] = position[s]]
    /\ wpc' = [wpc EXCEPT ![s] = "drain"]
    /\ UNCHANGED <<ctor, queue_depth,
                   self, index_file, index_buf, shard_file, writers,
                   upqueue, position, dwpc, pc, accepted, emitted, probe>>

\* while not q_out.empty(): sleep
WriterExit(s) ==
    /\ wpc[s] = "drain"
    /\ upqueue = <<>>
    /\ wpc' = [wpc EXCEPT ![s] = "exited"]
    /\ UNCHANGED <<ctor, queue_depth,
                   self, index_file, index_buf, shard_file, shard_size,
                   writers, q_in, upqueue, position, dwpc, pc, accepted,
                   emitted, probe>>

-----------------------------------------------------------------------------
(* Directory.directory_writer_process *)

Max(a, b) == IF a > b THEN a ELSE b

\* fd.seek(pos); fd.write(bytes) once it reaches the file: a write past the
\* end leaves a hole of zero bytes
WriteAt(f, pos, bytes) ==
    LET rel == pos - (HEADER_LEN + 8 + f.md_len)
        n == Len(bytes)
        len == Max(Len(f.table), rel + n)
    IN  [f EXCEPT !.table =
            [i \in 1..len |->
                IF i > rel /\ i <= rel + n THEN bytes[i - rel]
                ELSE IF i <= Len(f.table) THEN f.table[i] ELSE 0]]

Flushed(f, buf) ==
    IF buf = <<>> THEN f ELSE WriteAt(f, buf[1].pos, buf[1].bytes)

\* the entry size is left out of the address
EntryPositionUnscaled(d, directory_offset) ==
    d.directory_offset + directory_offset

EntryPosition(d, directory_offset) ==
    d.directory_offset + directory_offset * d.directory_entry_size

\* the seek flushes the previous entry; the new one stays in the buffer
IndexerWrite ==
    /\ dwpc = "run"
    /\ upqueue # <<>>
    /\ Head(upqueue).kind = "rec"
    /\ LET msg == Head(upqueue)
           file_offset == EntryPosition(self, msg.directory_offset)
           a == encode_directory_entry(self, msg.offset, msg.size)
       IN  /\ index_file' = Flushed(index_file, index_buf)
           /\ index_buf' = << [pos |-> file_offset, bytes |-> a] >>
    /\ upqueue' = Tail(upqueue)
    /\ UNCHANGED <<ctor, queue_depth,
                   self, shard_file, shard_size, writers, q_in, wpc,
                   position, dwpc, pc, accepted, emitted, probe>>

IndexerReturn ==
    /\ dwpc = "run"
    /\ upqueue # <<>>
    /\ Head(upqueue).kind = "None"
    /\ index_file' = Flushed(index_file, index_buf)
    /\ index_buf' = <<>>
    /\ upqueue' = Tail(upqueue)
    /\ dwpc' = "exited"
    /\ UNCHANGED <<ctor, queue_depth,
                   self, shard_file, shard_size, writers, q_in, wpc,
                   position, pc, accepted, emitted, probe>>

-----------------------------------------------------------------------------
(* Directory.close, BlockWriter.close, BlockWriter.stop *)

\* the writers are closed whether or not self.writers is None
close_unguarded ==
    /\ pc = At("idle")
    /\ pc' = [at |-> "stop", i |-> 1]
    /\ UNCHANGED <<ctor, queue_depth,
                   self, index_file, index_buf, shard_file, shard_size,
                   writers, q_in, upqueue, wpc, position, dwpc, accepted,
                   emitted, probe>>

\* if self.writers is None: return; otherwise the first writer.close()
close ==
    /\ pc = At("idle")
    /\ pc' = IF writers THEN [at |-> "stop", i |-> 1] ELSE pc
    /\ UNCHANGED <<ctor, queue_depth,
                   self, index_file, index_buf, shard_file, shard_size,
                   writers, q_in, upqueue, wpc, position, dwpc, accepted,
                   emitted, probe>>

\* stop(): wait until q_in and q_out are empty, then send EOT
stop ==
    /\ pc.at = "stop"
    /\ q_in[pc.i] = <<>>
    /\ upqueue = <<>>
    /\ q_in' = [q_in EXCEPT ![pc.i] = Append(@, EOTMessage)]
    /\ pc' = [pc EXCEPT !.at = "join"]
    /\ UNCHANGED <<ctor, queue_depth,
                   self, index_file, index_buf, shard_file, shard_size,
                   writers, upqueue, wpc, position, dwpc, accepted, emitted,
                   probe>>

\* process.join() and Thread.join() return once the process or thread is
\* gone, whether it returned or died
Gone(state) == state \in {"exited", "failed"}

\* the sentinel is sent to the indexer as soon as the first writer is gone
join_next_sentinel_early ==
    /\ pc.at = "join"
    /\ Gone(wpc[pc.i])
    /\ pc.i < Len(self.block_filenames)
    /\ upqueue' = Append(upqueue, [kind |-> "None"])
    /\ pc' = [at |-> "stop", i |-> pc.i + 1]
    /\ UNCHANGED <<ctor, queue_depth,
                   self, index_file, index_buf, shard_file, shard_size,
                   writers, q_in, wpc, position, dwpc, accepted, emitted,
                   probe>>

\* process.join(), then the next writer
join_next ==
    /\ pc.at = "join"
    /\ Gone(wpc[pc.i])
    /\ pc.i < Len(self.block_filenames)
    /\ pc' = [at |-> "stop", i |-> pc.i + 1]
    /\ UNCHANGED <<ctor, queue_depth,
                   self, index_file, index_buf, shard_file, shard_size,
                   writers, q_in, upqueue, wpc, position, dwpc, accepted,
                   emitted, probe>>

\* the indexer is never told to stop
join_last_no_sentinel ==
    /\ pc.at = "join"
    /\ wpc[pc.i] = "exited"
    /\ pc.i = Len(self.block_filenames)
    /\ pc' = At("join_directory_writer")
    /\ UNCHANGED <<ctor, queue_depth,
                   self, index_file, index_buf, shard_file, shard_size,
                   writers, q_in, upqueue, wpc, position, dwpc, accepted,
                   emitted, probe>>

\* process.join() of the last writer, then upqueue.put(None)
join_last ==
    /\ pc.at = "join"
    /\ Gone(wpc[pc.i])
    /\ pc.i = Len(self.block_filenames)
    /\ upqueue' = Append(upqueue, [kind |-> "None"])
    /\ pc' = At("join_directory_writer")
    /\ UNCHANGED <<ctor, queue_depth,
                   self, index_file, index_buf, shard_file, shard_size,
                   writers, q_in, wpc, position, dwpc, accepted, emitted,
                   probe>>

\* directory_writer.join(); self.writers = None
closed ==
    /\ pc = At("join_directory_writer")
    /\ Gone(dwpc)
    /\ writers' = FALSE
    /\ queue_depth' = None
    /\ pc' = At("idle")
    /\ UNCHANGED <<ctor, self, index_file, index_buf, shard_file, shard_size,
                   q_in, upqueue, wpc, position, dwpc, accepted, emitted,
                   probe>>

-----------------------------------------------------------------------------

Next ==
    \/ create
    \/ start_writer_processes(DEFAULT_QUEUE_DEPTH)
    \/ \E c \in Coords(self) : \E block \in Blocks(self) :
          write_block(block, c[1], c[2], c[3])
    \/ \E s \in Shards : WriterWrite(s)
    \/ \E s \in Shards : WriterEOT(s)
    \/ \E s \in Shards : WriterExit(s)
    \/ IndexerWrite
    \/ IndexerReturn
    \/ close
    \/ stop
    \/ join_next
    \/ join_last
    \/ closed

Spec == Init /\ [][Next]_vars

\* every shard writer process and the indexer thread keeps running, and the
\* thread that called close() keeps polling and joining
Fairness ==
    /\ \A s \in AllShards :
          WF_vars(WriterWrite(s)) /\ WF_vars(WriterEOT(s))
          /\ WF_vars(WriterExit(s))
    /\ WF_vars(IndexerWrite) /\ WF_vars(IndexerReturn)
    /\ WF_vars(stop) /\ WF_vars(join_next) /\ WF_vars(join_last)
    /\ WF_vars(closed)

\* the stores built with the constructor's own strides and bit widths
InitFair == Init /\ ctor.x_stride = None /\ ctor.n_offset_bits = None

SpecFair == InitFair /\ [][Next]_vars /\ Fairness

\* the caller also starts the workers with a small queue_depth
NextDepth == Next \/ start_writer_processes(SmallDepth)

SpecDepth == InitFair /\ [][NextDepth]_vars

\* the shard writer process dies: open(path, "r+b") raises before the loop, or
\* encoding or writing a message it has taken raises; no handler catches
\* either, and the with-block may or may not get its buffer to the file
WriterFail(s) ==
    /\ wpc[s] = "run"
    /\ wpc' = [wpc EXCEPT ![s] = "failed"]
    /\ \E taken \in BOOLEAN :
          /\ taken => q_in[s] # <<>> /\ Head(q_in[s]).kind = "msg"
          /\ q_in' = [q_in EXCEPT ![s] = IF taken THEN Tail(@) ELSE @]
    /\ \E on_disk \in {shard_size[s], position[s]} :
          shard_size' = [shard_size EXCEPT ![s] = on_disk]
    /\ UNCHANGED <<ctor, queue_depth, self, index_file, index_buf, shard_file,
                   writers, upqueue, position, dwpc, pc, accepted, emitted,
                   probe>>

\* the indexer thread dies: open(directory_filename, "r+b"), seek or write
\* raises; what it had buffered may or may not reach the file
IndexerFail ==
    /\ dwpc = "run"
    /\ dwpc' = "failed"
    /\ \E file \in {index_file, Flushed(index_file, index_buf)} :
          index_file' = file
    /\ index_buf' = <<>>
    /\ UNCHANGED <<ctor, queue_depth, self, shard_file, shard_size, writers,
                   q_in, upqueue, wpc, position, pc, accepted, emitted, probe>>

NextFail == Next \/ (\E s \in Shards : WriterFail(s)) \/ IndexerFail

SpecFail == InitFair /\ [][NextFail]_vars

\* coordinates inside the extents that are not a multiple of the block size
\* on every axis
Unaligned(d) ==
    ((0..(d.x_extent - 1)) \X (0..(d.y_extent - 1)) \X (0..(d.z_extent - 1)))
    \ Coords(d)

\* the client also calls write_block at such coordinates
NextUnaligned ==
    Next \/ \E c \in Unaligned(self) : \E block \in Blocks(self) :
                write_block(block, c[1], c[2], c[3])

SpecUnaligned == Init /\ [][NextUnaligned]_vars

\* the keys create() writes
KeysWritten == DOMAIN Metadata(Directory(CHOOSE a \in CtorArgs : TRUE))

Without(md, key) == [k \in DOMAIN md \ {key} |-> md[k]]

\* first 8 bytes that are not the header: an empty file, other bytes
BadHeaders == {"", "BlockFS2"}

\* Version values of formats this code does not write
OtherVersions == {"2.0.0", "0.9.0"}

\* a created index file, intact, with another header, with one key gone, or
\* with another Version
FilesToOpen(f) ==
    {f} \cup {[f EXCEPT !.header = h] : h \in BadHeaders}
        \cup {[f EXCEPT !.metadata = Without(@, key)] : key \in KeysWritten}
        \cup {[f EXCEPT !.metadata.Version = v] : v \in OtherVersions}

InitOpen ==
    /\ ctor \in CtorArgs
    /\ self = NoHandle
    /\ index_file \in FilesToOpen(CreatedFile(Directory(ctor)))
    /\ index_buf = <<>>
    /\ shard_file = [s \in AllShards |-> <<>>]
    /\ shard_size = [s \in AllShards |-> 0]
    /\ writers = FALSE
    /\ queue_depth = None
    /\ q_in = [s \in AllShards |-> <<>>]
    /\ upqueue = <<>>
    /\ wpc = [s \in AllShards |-> "none"]
    /\ position = [s \in AllShards |-> 0]
    /\ dwpc = "none"
    /\ pc = At("file")
    /\ accepted = <<>>
    /\ emitted = [s \in AllShards |-> <<>>]
    /\ probe = NoProbe

\* Directory.open(directory_filename): a handle, or an exception
open ==
    /\ pc \in {At("file"), At("idle")}
    /\ ~writers
    /\ self' = Open(index_file)
    /\ pc' = IF Open(index_file) = NoHandle THEN At("raised") ELSE At("opened")
    /\ UNCHANGED <<ctor, queue_depth, index_file, index_buf, shard_file,
                   shard_size, writers, q_in, upqueue, wpc, position, dwpc,
                   accepted, emitted, probe>>

SpecOpen == InitOpen /\ [][open]_vars

\* a read_block that starts the workers when none run, as write_block does
apply_read_block_starting_workers ==
    /\ pc = At("idle")
    /\ probe = NoProbe
    /\ \E c \in Coords(self) :
          probe' = [kind |-> "read_block", x |-> c[1], y |-> c[2], z |-> c[3],
                    out |-> read_block(self, index_file, shard_file,
                                       shard_size, c[1], c[2], c[3]),
                    n |-> Len(accepted), closed |-> ~writers]
    /\ writers' = TRUE
    /\ queue_depth' = IF writers THEN queue_depth ELSE DEFAULT_QUEUE_DEPTH
    /\ q_in' = IF writers THEN q_in ELSE StartedQueues
    /\ wpc' = IF writers THEN wpc ELSE StartedWpc
    /\ position' = IF writers THEN position ELSE StartedPosition
    /\ dwpc' = IF writers THEN dwpc ELSE "run"
    /\ UNCHANGED <<ctor, self, index_file, index_buf, shard_file, shard_size,
                   upqueue, pc, accepted, emitted>>

\* directory.read_block(x, y, z), called once by the client between its other
\* calls, while the workers run or after a close
apply_read_block ==
    /\ pc = At("idle")
    /\ probe = NoProbe
    /\ \E c \in Coords(self) :
          probe' = [kind |-> "read_block", x |-> c[1], y |-> c[2], z |-> c[3],
                    out |-> read_block(self, index_file, shard_file,
                                       shard_size, c[1], c[2], c[3]),
                    n |-> Len(accepted), closed |-> ~writers]
    /\ UNCHANGED <<ctor, queue_depth, self, index_file, index_buf, shard_file,
                   shard_size, writers, q_in, upqueue, wpc, position, dwpc,
                   pc, accepted, emitted>>

NextReads == Next \/ apply_read_block

SpecReads == Init /\ [][NextReads]_vars

\* a client whose read_block is its last call, at any point of a behaviour of
\* a store with the default strides and bit widths
NextReadLast == (probe = NoProbe /\ Next) \/ apply_read_block

SpecReadLast == InitFair /\ [][NextReadLast]_vars

-----------------------------------------------------------------------------
(* The constructor's defaults and offsetof, applied to bounded inputs *)

AddrArgs ==
    { [x_extent |-> xe, y_extent |-> ye, z_extent |-> ze,
       itemsize |-> 1, n_filenames |-> 1,
       x_block_size |-> xb, y_block_size |-> yb, z_block_size |-> zb,
       block_filenames |-> <<>>,
       x_stride |-> None, y_stride |-> None, z_stride |-> None,
       n_offset_bits |-> None, n_size_bits |-> None,
       directory_offset |-> None] :
      xe \in 1..MaxExtent, ye \in 1..MaxExtent, ze \in 1..MaxExtent,
      xb \in 1..2, yb \in 1..2, zb \in 1..2 }

InitWith(args, where) ==
    /\ ctor \in args
    /\ self = NoHandle
    /\ index_file = EmptyFile
    /\ index_buf = <<>>
    /\ shard_file = [s \in AllShards |-> <<>>]
    /\ shard_size = [s \in AllShards |-> 0]
    /\ writers = FALSE
    /\ queue_depth = None
    /\ q_in = [s \in AllShards |-> <<>>]
    /\ upqueue = <<>>
    /\ wpc = [s \in AllShards |-> "none"]
    /\ position = [s \in AllShards |-> 0]
    /\ dwpc = "none"
    /\ pc = At(where)
    /\ accepted = <<>>
    /\ emitted = [s \in AllShards |-> <<>>]
    /\ probe = NoProbe

Unprobed == <<index_file, index_buf, shard_file, shard_size, writers, q_in,
              upqueue, wpc, position, dwpc, accepted, emitted>>

\* Directory(...)
construct ==
    /\ pc = At("args")
    /\ self' = Directory(ctor)
    /\ pc' = At("constructed")
    /\ UNCHANGED <<ctor, queue_depth, probe>>
    /\ UNCHANGED Unprobed

\* directory.offsetof(x, y, z)
apply_offsetof ==
    /\ pc = At("constructed")
    /\ probe = NoProbe
    /\ \E c \in Coords(self) :
          probe' = [kind |-> "offsetof", x |-> c[1], y |-> c[2], z |-> c[3],
                    offset |-> offsetof(self, c[1], c[2], c[3])]
    /\ UNCHANGED <<ctor, queue_depth, self, pc>>
    /\ UNCHANGED Unprobed

\* directory.create() on a path whose index file holds published entries:
\* open(directory_filename, "wb") truncates the file, then the header, the two
\* words and the JSON are written as on an empty path
create_existing ==
    /\ pc = At("idle")
    /\ ~writers
    /\ probe = NoProbe
    /\ index_file.table # <<>>
    /\ index_file' = CreatedFile(self)
    /\ self' = [self EXCEPT !.directory_offset = CreatedFile(self).dir_offset]
    /\ probe' = [kind |-> "create", raised |-> FALSE,
                 before |-> index_file, after |-> CreatedFile(self)]
    /\ UNCHANGED <<ctor, queue_depth, pc, index_buf, shard_file, shard_size,
                   writers, q_in, upqueue, wpc, position, dwpc, accepted,
                   emitted>>

NextExisting == Next \/ create_existing

SpecExisting == InitFair /\ [][NextExisting]_vars

-----------------------------------------------------------------------------
(* blockfs-mv and blockfs-cp *)

\* os.path.join(dest_directory, os.path.split(name)[1]): the path of a file
\* in another directory; the shift makes the name longer
MovedName(name, shift) == name + shift

DestShifts == {10, 100}

\* the shard files under their destination names
MovedShards(shards, shift) ==
    [n \in {MovedName(s, shift) : s \in AllShards} |-> shards[n - shift]]

\* dest_directory = Directory(...) as mv.main calls it
MvDestDirectory(directory, shift) ==
    Directory([x_extent |-> directory.x_extent,
               y_extent |-> directory.y_extent,
               z_extent |-> directory.z_extent,
               itemsize |-> directory.itemsize,
               n_filenames |-> None,
               x_block_size |-> directory.x_block_size,
               y_block_size |-> directory.y_block_size,
               z_block_size |-> directory.z_block_size,
               block_filenames |->
                   [i \in 1..Len(directory.block_filenames) |->
                       MovedName(directory.block_filenames[i], shift)],
               x_stride |-> None, y_stride |-> None, z_stride |-> None,
               n_offset_bits |-> None, n_size_bits |-> None,
               directory_offset |-> None,
               compression |-> CompressionMember(directory.compression.name),
               compression_level |-> directory.compression_level,
               metadata |-> directory.metadata])

\* every block read_block returns through a handle opened on an index file
ReadsOf(f, shards, sizes) ==
    LET d == Open(f)
    IN  [c \in Coords(d) |-> read_block(d, f, shards, sizes, c[1], c[2], c[3])]

\* mv.main(args, move): the store is closed; the destination index is
\* created and the directory table copied behind its metadata, the shard
\* files are moved or copied, and a moved source index is removed
mv_main(move, shift) ==
    /\ pc = At("idle")
    /\ ~writers
    /\ accepted # <<>>
    /\ probe = NoProbe
    /\ LET directory == Open(index_file)
           dest_directory == MvDestDirectory(directory, shift)
           dest_file == [CreatedFile(dest_directory)
                             EXCEPT !.table = index_file.table]
       IN  probe' = [kind |-> "mv", move |-> move,
                     source |-> [index_file |-> index_file,
                                 shard_file |-> shard_file,
                                 shard_size |-> shard_size],
                     index_file |-> dest_file,
                     shard_file |-> MovedShards(shard_file, shift),
                     shard_size |-> MovedShards(shard_size, shift)]
    /\ index_file' = IF move THEN EmptyFile ELSE index_file
    /\ shard_file' = IF move THEN [s \in AllShards |-> <<>>] ELSE shard_file
    /\ shard_size' = IF move THEN [s \in AllShards |-> 0] ELSE shard_size
    /\ pc' = At("moved")
    /\ UNCHANGED <<ctor, queue_depth, self, index_buf, writers, q_in,
                   upqueue, wpc, position, dwpc, accepted, emitted>>

NextMv == Next \/ \E move \in BOOLEAN, shift \in DestShifts :
                     mv_main(move, shift)

SpecMv == Init /\ [][NextMv]_vars

-----------------------------------------------------------------------------
(* blockfs-rebase *)

\* --block-size: default 4096 * 16
DefaultCopyBlockSize == 65536

CopyBlockSizes == {1, 2, DefaultCopyBlockSize}

\* the shift 0 names the directory the files are in already
RebaseShifts == {0} \cup DestShifts

\* len(range(start, stop, step))
RangeLen(first, limit, step) ==
    IF limit <= first THEN 0 ELSE (limit - first + step - 1) \div step

\* src_directory.create(create_shards=False): the index file alone is
\* written, as by create()
create_no_shards(d) == CreatedFile(d)

\* the copy loop of rebase.main: one src_fd.read(block_size) per element of
\* the range, reading on from the source's index base until the file ends
RebaseCopied(table, first, st_size, block_size) ==
    SubSeq(table, 1,
           Min(Len(table), RangeLen(first, st_size, block_size) * block_size))

\* rebase.main(args): the store is closed and its files are in the directory
\* of the index file; the index is rewritten with the shard names of that
\* directory and replaces the old one
rebase_main(shift, block_size) ==
    /\ pc = At("idle")
    /\ ~writers
    /\ accepted # <<>>
    /\ probe = NoProbe
    /\ LET opened == Open(index_file)
           src_directory ==
               [opened EXCEPT !.block_filenames =
                   [i \in 1..Len(opened.block_filenames) |->
                       MovedName(opened.block_filenames[i], shift)]]
           created == create_no_shards(src_directory)
           dest_file ==
               [created EXCEPT !.table =
                   RebaseCopied(index_file.table, created.dir_offset,
                                StSize(index_file), block_size)]
       IN  /\ index_file' = dest_file
           /\ probe' = [kind |-> "rebase",
                        source |-> [index_file |-> index_file,
                                    shard_file |-> shard_file,
                                    shard_size |-> shard_size],
                        block_filenames |-> src_directory.block_filenames,
                        shard_file |-> MovedShards(shard_file, shift),
                        shard_size |-> MovedShards(shard_size, shift)]
    /\ pc' = At("rebased")
    /\ UNCHANGED <<ctor, queue_depth, self, index_buf, shard_file, shard_size,
                   writers, q_in, upqueue, wpc, position, dwpc, accepted,
                   emitted>>

NextRebase == Next \/ \E shift \in RebaseShifts, block_size \in CopyBlockSizes :
                         rebase_main(shift, block_size)

SpecRebase == Init /\ [][NextRebase]_vars

\* Directory(..., compression=, compression_level=, metadata=); create();
\* Directory.open(directory_filename)
ApplicationMetadatas ==
    {NoMetadata, [Channel |-> 7], [Channel |-> 12, XExtent |-> 9]}

DescriptorArgs ==
    { a @@ [compression |-> CompressionMember(name),
            compression_level |-> lvl, metadata |-> app] :
      a \in CtorArgs, name \in {"zstd", "lz4"}, lvl \in {5, 9},
      app \in ApplicationMetadatas }

InitCreateOpen == InitWith(DescriptorArgs, "args")
NextCreateOpen == construct \/ create \/ open
SpecCreateOpen == InitCreateOpen /\ [][NextCreateOpen]_vars

InitAddr == InitWith(AddrArgs, "args")
NextAddr == construct \/ apply_offsetof
SpecAddr == InitAddr /\ [][NextAddr]_vars

-----------------------------------------------------------------------------
(* The entry codec, applied to bounded inputs *)

MaxBits == 5          \* largest n_offset_bits and n_size_bits tried

CodecArgs ==
    { [x_extent |-> 2, y_extent |-> 2, z_extent |-> 2,
       itemsize |-> 1, n_filenames |-> 1,
       x_block_size |-> 2, y_block_size |-> 2, z_block_size |-> 2,
       block_filenames |-> <<>>,
       x_stride |-> None, y_stride |-> None, z_stride |-> None,
       n_offset_bits |-> no, n_size_bits |-> ns,
       directory_offset |-> None] :
      no \in 1..MaxBits, ns \in 1..MaxBits }

\* a = np.zeros(directory_entry_size); encode_directory_entry(a, offset, size);
\* decode_directory_entry(a)
encode_decode ==
    /\ pc = At("constructed")
    /\ probe = NoProbe
    /\ \E offset \in 0..Pow(2, self.n_offset_bits) :
       \E size \in 0..Pow(2, self.n_size_bits) :
          LET a == encode_directory_entry(self, offset, size)
          IN  probe' = [kind |-> "codec", offset |-> offset, size |-> size,
                        a |-> a, out |-> decode_directory_entry(self, a)]
    /\ UNCHANGED <<ctor, queue_depth, self, pc>>
    /\ UNCHANGED Unprobed

InitCodec == InitWith(CodecArgs, "args")
NextCodec == construct \/ encode_decode
SpecCodec == InitCodec /\ [][NextCodec]_vars

-----------------------------------------------------------------------------
(* Where a directory entry lies, for bounded widths and offsets *)

MaxDirOffset == 3     \* largest directory offset tried

\* the position the indexer seeks to and the one read_block maps, next to
\* the one the docstring gives, for one directory offset of a created store
apply_entry_position ==
    /\ pc = At("idle")
    /\ ~writers
    /\ probe = NoProbe
    /\ \E offset \in 0..MaxDirOffset :
          probe' = [kind |-> "position", offset |-> offset,
                    indexer |-> EntryPosition(self, offset),
                    reader |-> ReadPosition(self, offset),
                    documented |-> DocumentedEntryPosition(self, offset)]
    /\ UNCHANGED <<ctor, queue_depth, self, pc>>
    /\ UNCHANGED Unprobed

NextEntryPosition == construct \/ create \/ apply_entry_position
SpecEntryPosition == InitCodec /\ [][NextEntryPosition]_vars

-----------------------------------------------------------------------------
(* What the claims speak about *)

\* close() has returned after at least one accepted write
Quiescent == pc = At("idle") /\ ~writers /\ accepted # <<>>

WritesAt(c) ==
    {k \in 1..Len(accepted) :
        accepted[k].x = c[1] /\ accepted[k].y = c[2] /\ accepted[k].z = c[3]}

Written(c) == WritesAt(c) # {}

LastWritten(c) ==
    accepted[CHOOSE k \in WritesAt(c) : \A j \in WritesAt(c) : j <= k].block

ReadWith(d, c) ==
    read_block(d, index_file, shard_file, shard_size, c[1], c[2], c[3])

DirOffsets(d) == {offsetof(d, c[1], c[2], c[3]) : c \in Coords(d)}

ZeroEntry(d) == [i \in 1..d.directory_entry_size |-> 0]

\* the bytes of one directory entry as the file holds them (zero past the end)
EntryBytes(d, f, off) ==
    LET rel == d.directory_offset + off * d.directory_entry_size
               - (HEADER_LEN + 8 + f.md_len)
    IN  [i \in 1..d.directory_entry_size |->
            IF rel + i <= Len(f.table) THEN f.table[rel + i] ELSE 0]

WritesNaming(acc, off) ==
    {k \in 1..Len(acc) : acc[k].directory_offset = off}

NBlocks(d) ==
    BlocksAlong(d.x_extent, d.x_block_size)
    * BlocksAlong(d.y_extent, d.y_block_size)
    * BlocksAlong(d.z_extent, d.z_block_size)

\* the directory offsets enqueued to shard s, in enqueue order
RECURSIVE EnqueuedTo(_, _)
EnqueuedTo(s, n) ==
    IF n = 0 THEN <<>>
    ELSE IF ShardOf(self, accepted[n].directory_offset) = s
         THEN Append(EnqueuedTo(s, n - 1), accepted[n].directory_offset)
         ELSE EnqueuedTo(s, n - 1)

-----------------------------------------------------------------------------
\* C1: once close() has returned, read_block at every written coordinate
\* returns the payload (last) written there.
C1_WriteThenRead ==
    Quiescent =>
        \A c \in Coords(self) : Written(c) => ReadWith(self, c) = LastWritten(c)

\* C2: once close() has returned, read_block at a block-aligned coordinate
\* that was never written returns an all-zero block of shape get_block_size.
C2_UnwrittenReadsZero ==
    Quiescent =>
        \A c \in Coords(self) :
            ~Written(c) =>
                ReadWith(self, c) = Zeros(get_block_size(self, c[1], c[2], c[3]))

\* C3 (as stated): a directory entry that is non-zero is never written again,
\* whatever write_block calls are accepted.
C3_EntryNeverRewritten ==
    [][pc.at # "new" =>
        \A off \in DirOffsets(self) :
            EntryBytes(self, index_file, off) # ZeroEntry(self)
            => EntryBytes(self', index_file', off)
               = EntryBytes(self, index_file, off)]_vars

\* C3 (amended): every entry is all-zero after create, and an entry whose
\* directory offset is named by at most one accepted write_block changes at
\* most once: once non-zero it keeps its value.
C3_EntryWrittenOncePerWrite ==
    [][/\ (pc.at = "new" /\ pc'.at = "idle") =>
            \A off \in DirOffsets(self') :
                EntryBytes(self', index_file', off) = ZeroEntry(self')
       /\ pc.at # "new" =>
            \A off \in DirOffsets(self) :
                (/\ EntryBytes(self, index_file, off) # ZeroEntry(self)
                 /\ Cardinality(WritesNaming(accepted', off)) <= 1)
                => EntryBytes(self', index_file', off)
                   = EntryBytes(self, index_file, off)]_vars

C3_Witness ==
    /\ Quiescent
    /\ Len(accepted) = 2
    /\ \E off \in DirOffsets(self) :
          /\ Cardinality(WritesNaming(accepted, off)) = 1
          /\ EntryBytes(self, index_file, off) # ZeroEntry(self)
    /\ \E off \in DirOffsets(self) :
          EntryBytes(self, index_file, off) = ZeroEntry(self)

\* C4: in every reachable state each directory entry in the index file is
\* all zero or decodes to a byte range that lies inside its shard file.
C4_EntryInsideShard ==
    pc.at # "new" =>
        \A off \in DirOffsets(self) :
            LET m == EntryBytes(self, index_file, off)
                e == decode_directory_entry(self, m)
            IN  \/ m = ZeroEntry(self)
                \/ e[1] + e[2] <= shard_size[ShardOf(self, off)]

\* C5: with the default bit widths every publication record a shard writer
\* emits fits the entry: file_offset < 2^n_offset_bits, byte_count <
\* 2^n_size_bits, and the stored entry decodes back to the record.
C5_DefaultWidthsFit ==
    (ctor.n_offset_bits = None /\ ctor.n_size_bits = None) =>
        \A s \in Shards : \A k \in 1..Len(emitted[s]) :
            LET r == emitted[s][k]
            IN  /\ r.offset < Pow(2, self.n_offset_bits)
                /\ r.size < Pow(2, self.n_size_bits)
                /\ decode_directory_entry(self,
                       encode_directory_entry(self, r.offset, r.size))
                   = <<r.offset, r.size>>

\* C6: for offset < 2^n_offset_bits and size < 2^n_size_bits, decoding the
\* encoded entry returns (offset, size).
C6_EntryRoundTrip ==
    (/\ probe.kind = "codec"
     /\ probe.offset < Pow(2, self.n_offset_bits)
     /\ probe.size < Pow(2, self.n_size_bits))
    => probe.out = <<probe.offset, probe.size>>

C6_Witness ==
    /\ probe.kind = "codec"
    /\ self.directory_entry_size = 2
    /\ probe.offset = Pow(2, self.n_offset_bits) - 1
    /\ probe.size = Pow(2, self.n_size_bits) - 1
    /\ probe.a[2] # 0
    /\ probe.out = <<probe.offset, probe.size>>

\* C7: with default strides offsetof maps the block-aligned coordinates
\* inside the extents one-to-one into [0, N_blocks).
C7_AddressBijection ==
    pc = At("constructed") =>
        /\ \A c \in Coords(self) :
              offsetof(self, c[1], c[2], c[3]) < NBlocks(self)
        /\ \A c1, c2 \in Coords(self) :
              offsetof(self, c1[1], c1[2], c1[3])
              = offsetof(self, c2[1], c2[2], c2[3]) => c1 = c2

\* C8: with no strides supplied, x_stride = 1, y_stride = ceil(X/bx) and
\* z_stride = y_stride * ceil(Y/by).
C8_DefaultStrides ==
    pc = At("constructed") =>
        /\ self.x_stride = 1
        /\ self.y_stride = BlocksAlong(self.x_extent, self.x_block_size)
        /\ self.z_stride
           = self.y_stride * BlocksAlong(self.y_extent, self.y_block_size)

\* C9: after writes and a close, the handle Directory.open builds from the
\* index file reads, at every block coordinate, what the writing handle reads.
C9_OpenReadsTheSame ==
    Quiescent =>
        \A c \in Coords(self) :
            ReadWith(Open(index_file), c) = ReadWith(self, c)

C9_Witness ==
    /\ Quiescent
    /\ ctor.x_stride # None
    /\ ctor.n_offset_bits # None
    /\ \E c \in Coords(self) :
          /\ Written(c)
          /\ offsetof(self, c[1], c[2], c[3]) >= self.z_stride
          /\ ReadWith(Open(index_file), c) = LastWritten(c)

\* C10: a shard writer emits its publication records in the order its
\* messages were enqueued, each with its message's directory offset, and with
\* strictly increasing file_offset.
C10_ShardFifo ==
    \A s \in Shards :
        LET enq == EnqueuedTo(s, Len(accepted))
            out == emitted[s]
        IN  /\ Len(out) <= Len(enq)
            /\ \A k \in 1..Len(out) :
                  /\ out[k].directory_offset = enq[k]
                  /\ k > 1 => out[k - 1].offset < out[k].offset

C10_Witness ==
    \E s \in Shards :
        /\ Len(emitted[s]) = 2
        /\ emitted[s][1].directory_offset # emitted[s][2].directory_offset
        /\ emitted[s][1].offset < emitted[s][2].offset

\* close() is running
InClose == pc.at \in {"stop", "join", "join_directory_writer"}

\* close() has returned: no process is left and no queue holds anything
CloseReturned ==
    /\ pc = At("idle")
    /\ ~writers
    /\ dwpc = "exited"
    /\ upqueue = <<>>
    /\ \A s \in Shards : wpc[s] = "exited" /\ q_in[s] = <<>>

\* C11: with the shard writers, the indexer and the closing thread scheduled
\* fairly, a close() made after any accepted writes returns, and at its
\* return every shard writer and the indexer have exited and every inbound
\* queue and the outbound queue are empty.
C11_CloseTerminates ==
    /\ InClose ~> CloseReturned
    /\ [][(InClose /\ pc'.at = "idle") => CloseReturned']_vars

C11_Witness ==
    /\ CloseReturned
    /\ Len(accepted) = 2
    /\ Len(self.block_filenames) = 2
    /\ \A s \in Shards : emitted[s] # <<>>

\* C12: close() on a handle that has no workers (closed before, or never
\* started) sends no sentinel, joins nothing and changes neither the index
\* file, the shard files nor the handle: every step such a handle takes
\* without starting workers leaves all of them as they were.
C12_CloseIdempotent ==
    [][(pc = At("idle") /\ ~writers /\ ~writers')
       => UNCHANGED <<self, index_file, index_buf, shard_file, shard_size,
                      q_in, upqueue, wpc, dwpc, position, pc>>]_vars

C12_Witness ==
    /\ pc = At("idle")
    /\ ~writers
    /\ ENABLED close
    /\ index_file.table # <<>>
    /\ dwpc = "exited"

\* C13: while workers exist, no step (a further start_writer_processes with
\* any queue_depth included) makes a new shard writer or indexer: the
\* writers keep the queue_depth, the queues and the file positions they
\* have, and no process that has left its loop runs again.
C13_StartIdempotent ==
    [][(writers /\ writers') =>
          /\ queue_depth' = queue_depth
          /\ dwpc # "run" => dwpc' # "run"
          /\ \A s \in Shards :
                /\ wpc[s] # "run" => wpc'[s] # "run"
                /\ position'[s] >= position[s]
                /\ \/ q_in'[s] = q_in[s]
                   \/ q_in[s] # <<>> /\ q_in'[s] = Tail(q_in[s])
                   \/ q_in'[s] # <<>>
                      /\ q_in'[s] = Append(q_in[s], q_in'[s][Len(q_in'[s])])
      ]_vars

C13_Witness ==
    /\ pc = At("idle")
    /\ writers
    /\ queue_depth = DEFAULT_QUEUE_DEPTH
    /\ ENABLED start_writer_processes(SmallDepth)
    /\ \E s \in Shards : q_in[s] # <<>> /\ position[s] > shard_size[s]

\* C14: when a close() has returned between two write_block calls (the
\* client read a block on the closed handle after probe.n writes, and wrote
\* again afterwards), then after the next close() every block written before
\* and after the first close reads back with its own payload.
C14_RestartKeepsBlocks ==
    (/\ Quiescent
     /\ probe.kind = "read_block"
     /\ probe.closed
     /\ 0 < probe.n
     /\ probe.n < Len(accepted))
    => \A c \in Coords(self) :
          Written(c) => ReadWith(self, c) = LastWritten(c)

\* C15: no shard writer's inbound queue ever holds more messages than the
\* queue_depth the workers were started with (a write_block that would
\* exceed it waits instead).
C15_QueueDepthBounds ==
    writers => \A s \in Shards : Len(q_in[s]) <= queue_depth

\* the payloads of the first n accepted writes at coordinate c, as stored
PayloadsAt(c, n) ==
    {AsType(self, accepted[k].block) : k \in {j \in WritesAt(c) : j <= n}}

\* C16: a read_block made while the workers run (writes queued, appended,
\* published or being entered) returns an all-zero block or a complete
\* payload written at its coordinate, and never fails. Stated for stores
\* whose strides and n_offset_bits were supplied, where entries are never
\* shared and every record fits.
C16_InFlightRead ==
    (/\ probe.kind = "read_block"
     /\ ~probe.closed
     /\ ctor.x_stride # None
     /\ ctor.n_offset_bits # None)
    => LET c == <<probe.x, probe.y, probe.z>>
       IN  \/ probe.out = Zeros(get_block_size(self, c[1], c[2], c[3]))
           \/ probe.out \in PayloadsAt(c, probe.n)

\* C17: a worker that terminated abnormally is reported by write_block or by
\* close(): close() does not return normally while a block that write_block
\* accepted was never written by its shard writer or never entered by the
\* indexer.
C17_NoSilentLoss ==
    (pc = At("idle") /\ ~writers) =>
        /\ \A s \in Shards :
              Len(emitted[s]) = Len(EnqueuedTo(s, Len(accepted)))
        /\ \A k \in 1..Len(accepted) :
              EntryBytes(self, index_file, accepted[k].directory_offset)
              # ZeroEntry(self)

\* C18: a write_block whose block shape differs from get_block_size(x, y, z)
\* fails and leaves everything as it was: every write that was accepted,
\* every message in a shard queue and every chunk in a shard file is a block
\* of the expected shape given to an accepted write_block.
C18_OnlyExpectedShapes ==
    /\ \A k \in 1..Len(accepted) :
          accepted[k].block.shape
          = get_block_size(self, accepted[k].x, accepted[k].y, accepted[k].z)
    /\ \A s \in Shards :
          /\ \A i \in 1..Len(q_in[s]) :
                q_in[s][i].kind = "msg" =>
                    \E k \in WritesNaming(accepted, q_in[s][i].directory_offset) :
                        AsType(self, accepted[k].block) = q_in[s][i].a
          /\ \A i \in 1..Len(shard_file[s]) :
                \E k \in 1..Len(accepted) :
                    AsType(self, accepted[k].block) = shard_file[s][i].a

C18_Witness ==
    /\ pc = At("idle")
    /\ Len(accepted) = 1
    /\ \E c \in Coords(self) : \E good, bad \in Blocks(self) :
          /\ bad.shape # get_block_size(self, c[1], c[2], c[3])
          /\ bad.shape = accepted[1].block.shape
          /\ ~ENABLED write_block(bad, c[1], c[2], c[3])
          /\ ENABLED write_block(good, c[1], c[2], c[3])

\* C19: a write_block at a coordinate that is not block-aligned is rejected
\* and writes nothing; in particular it is not stored under the entry of the
\* aligned block that contains the coordinate, so an aligned block that was
\* never written itself still reads as zeros after close(). Stated for
\* stores whose strides and n_offset_bits were supplied.
C19_MisalignedWritesNothing ==
    (Quiescent /\ ctor.x_stride # None /\ ctor.n_offset_bits # None) =>
        \A c \in Coords(self) :
            ~Written(c) =>
                ReadWith(self, c) = Zeros(get_block_size(self, c[1], c[2], c[3]))

\* C20: Directory.open returns no handle when the first 8 bytes are not the
\* header or when any of the keys create() writes (the required keys) is
\* absent from the metadata.
C20_OpenRejectsDamaged ==
    (/\ pc.at \in {"opened", "raised"}
     /\ \/ index_file.header # HEADER
        \/ ~(KeysWritten \subseteq DOMAIN index_file.metadata))
    => self = NoHandle /\ pc = At("raised")

\* C21: Directory.open returns no handle when the metadata's Version is not
\* "1.0.0".
C21_OpenRejectsUnknownVersion ==
    (/\ pc.at \in {"opened", "raised"}
     /\ "Version" \in DOMAIN index_file.metadata
     /\ index_file.metadata.Version # CURRENT_VERSION)
    => self = NoHandle /\ pc = At("raised")

\* C22: after create() and before any write, the index file is the header,
\* the byte length of the JSON metadata and the index base as two uint32
\* words, and the JSON: the stored length is the JSON's byte length, the
\* index base is 8 + 8 + that length, the handle holds the same base, and
\* the file is exactly index-base bytes long.
C22_CreatedLayout ==
    (pc.at # "new" /\ accepted = <<>>)
    => /\ index_file.header = HEADER
       /\ index_file.md_size = JsonLen(index_file.metadata)
       /\ index_file.md_len = index_file.md_size
       /\ index_file.dir_offset = HEADER_LEN + 8 + index_file.md_size
       /\ self.directory_offset = index_file.dir_offset
       /\ index_file.table = <<>>
       /\ StSize(index_file) = index_file.dir_offset

C22_Witness ==
    /\ pc = At("idle")
    /\ ~writers
    /\ accepted = <<>>
    /\ index_file.header = HEADER
    /\ StSize(index_file) = index_file.dir_offset
    /\ index_file.dir_offset > HEADER_LEN + 8

\* C23: a handle opened on the file create() wrote has the extents, block
\* sizes, strides, bit widths, voxel type, shard filenames in order,
\* compression name and level and index base of the handle that created it,
\* and holds every key that is not a key of the format, with its value, as
\* application metadata.
C23_CreateOpenRoundTrip ==
    (pc.at \in {"opened", "raised"})
    => LET made == Directory(ctor)
       IN  /\ pc = At("opened")
           /\ self.x_extent = made.x_extent
           /\ self.y_extent = made.y_extent
           /\ self.z_extent = made.z_extent
           /\ self.x_block_size = made.x_block_size
           /\ self.y_block_size = made.y_block_size
           /\ self.z_block_size = made.z_block_size
           /\ self.x_stride = made.x_stride
           /\ self.y_stride = made.y_stride
           /\ self.z_stride = made.z_stride
           /\ self.n_offset_bits = made.n_offset_bits
           /\ self.n_size_bits = made.n_size_bits
           /\ self.directory_entry_size = made.directory_entry_size
           /\ self.itemsize = made.itemsize
           /\ self.block_filenames = made.block_filenames
           /\ self.compression.name = made.compression.name
           /\ self.compression_level = made.compression_level
           /\ self.directory_offset = CreatedFile(made).dir_offset
           /\ self.directory_offset = index_file.dir_offset
           /\ self.metadata = ApplicationMetadata(ctor.metadata)

C23_Witness ==
    /\ pc = At("opened")
    /\ ctor.x_stride # None
    /\ ctor.n_offset_bits # None
    /\ Len(self.block_filenames) > 1
    /\ self.compression.name = "lz4"
    /\ self.compression_level = 9
    /\ DOMAIN self.metadata = {"Channel"}
    /\ "XExtent" \in DOMAIN ctor.metadata

\* C24: create() on an index path that holds a store with published entries
\* raises and leaves the index file as it was.
C24_CreateKeepsExistingStore ==
    (probe.kind = "create")
    => probe.raised /\ probe.after = probe.before

\* C25: on a store no worker is writing to, for every block-aligned
\* coordinate get_block_size is (min(bz, Z - z), min(by, Y - y),
\* min(bx, X - x)), every component is at least 1, and read_block returns a
\* block of exactly that shape, written or not.
C25_ReadShape ==
    (pc = At("idle") /\ ~writers)
    => \A c \in Coords(self) :
          LET shape == get_block_size(self, c[1], c[2], c[3])
          IN  /\ shape = << Min(self.z_block_size, self.z_extent - c[3]),
                            Min(self.y_block_size, self.y_extent - c[2]),
                            Min(self.x_block_size, self.x_extent - c[1]) >>
              /\ \A i \in 1..3 : shape[i] >= 1
              /\ ReadWith(self, c).shape = shape

\* C26: after blockfs-mv, a handle opened on the moved index file reads, at
\* every coordinate, the block the source store returned before the move.
C26_MvKeepsBlocks ==
    (probe.kind = "mv" /\ probe.move)
    => /\ Open(probe.index_file) # NoHandle
       /\ ReadsOf(probe.index_file, probe.shard_file, probe.shard_size)
            = ReadsOf(probe.source.index_file, probe.source.shard_file,
                      probe.source.shard_size)

\* C27: after blockfs-cp the source index and shard files are as they were,
\* and source and copy return the same block at every coordinate.
C27_CpKeepsSourceAndBlocks ==
    (probe.kind = "mv" /\ ~probe.move)
    => /\ index_file = probe.source.index_file
       /\ shard_file = probe.source.shard_file
       /\ shard_size = probe.source.shard_size
       /\ Open(probe.index_file) # NoHandle
       /\ ReadsOf(probe.index_file, probe.shard_file, probe.shard_size)
            = ReadsOf(index_file, shard_file, shard_size)

\* C28: after blockfs-rebase the index names the shard files of the index
\* file's directory, holds every directory entry byte for byte at the same
\* directory offset, and read_block returns what it returned before.
C28_RebaseKeepsEntries ==
    (probe.kind = "rebase")
    => /\ index_file.metadata.BlockFilenames = probe.block_filenames
       /\ index_file.table = probe.source.index_file.table
       /\ ReadsOf(index_file, probe.shard_file, probe.shard_size)
            = ReadsOf(probe.source.index_file, probe.source.shard_file,
                      probe.source.shard_size)

\* the block-aligned ranges along one axis
Runs(extent, block_size) ==
    {{c \in Aligned(extent, block_size) : lo <= c /\ c <= hi} :
        lo \in Aligned(extent, block_size),
        hi \in Aligned(extent, block_size)} \ {{}}

\* directory[z0:z1, y0:y1, x0:x1]
Regions(d) ==
    {[z |-> zs, y |-> ys, x |-> xs] :
        zs \in Runs(d.z_extent, d.z_block_size),
        ys \in Runs(d.y_extent, d.y_block_size),
        xs \in Runs(d.x_extent, d.x_block_size)}

RegionBlocks(region) ==
    {<<x, y, z>> : x \in region.x, y \in region.y, z \in region.z}

\* z runs slowest, x fastest
ZyxBefore(a, b) ==
    \/ a[3] < b[3]
    \/ a[3] = b[3] /\ a[2] < b[2]
    \/ a[3] = b[3] /\ a[2] = b[2] /\ a[1] < b[1]

RECURSIVE ZyxOrder(_)
ZyxOrder(S) ==
    IF S = {} THEN <<>>
    ELSE LET c == CHOOSE a \in S : \A b \in S \ {a} : ZyxBefore(a, b)
         IN  <<c>> \o ZyxOrder(S \ {c})

\* directory[region] = array: one write_block per block of the region, each
\* with its sub-array
setitem(d, region, array) ==
    LET cs == ZyxOrder(RegionBlocks(region))
    IN  [k \in 1..Len(cs) |->
           [x |-> cs[k][1], y |-> cs[k][2], z |-> cs[k][3],
            block |-> [shape |-> get_block_size(d, cs[k][1], cs[k][2],
                                                cs[k][3]),
                       v |-> array[cs[k]]],
            directory_offset |-> offsetof(d, cs[k][1], cs[k][2], cs[k][3])]]

\* C29: when the writes a store accepted are those of one assignment
\* directory[z0:z1, y0:y1, x0:x1] = array to a block-aligned region, then
\* after close read_block at every block of the region returns the
\* sub-array assigned there.
C29_SetItemAsWriteBlocks ==
    Quiescent
    => \A region \in Regions(self) :
          \A array \in [RegionBlocks(region) -> Payloads] :
             (accepted = setitem(self, region, array))
             => \A c \in RegionBlocks(region) :
                   ReadWith(self, c)
                     = AsType(self, [shape |-> get_block_size(self, c[1],
                                                              c[2], c[3]),
                                     v |-> array[c]])

\* C30: the byte position at which the indexer writes and read_block reads
\* the entry of a directory offset is the one the module docstring gives,
\* DirOffset + offset * (NOffsetBits + NSizeBits) // 8.
C30_EntryPositionAsDocumented ==
    (probe.kind = "position")
    => /\ probe.indexer = probe.documented
       /\ probe.reader = probe.documented

\* where the last record of a shard ends (0 before the first record)
EndOfRecords(s) ==
    IF emitted[s] = <<>> THEN 0
    ELSE emitted[s][Len(emitted[s])].offset + emitted[s][Len(emitted[s])].size

\* C31: the publication records of a shard writer tile the bytes appended
\* to its shard file: the first record starts at the length the file had
\* when the worker started (0 for the empty file, the end of the last
\* record for a worker started after a close), every later record starts
\* where the one before it ends, the blocks in the file lie at the records'
\* positions, and once the worker has left its loop the file is as long as
\* the end of the last record.
C31_RecordsTileShard ==
    \A s \in AllShards :
       /\ \A k \in 1..Len(emitted[s]) :
             /\ emitted[s][k].offset
                  = (IF k = 1 THEN 0
                     ELSE emitted[s][k - 1].offset + emitted[s][k - 1].size)
             /\ shard_file[s][k].start = emitted[s][k].offset
             /\ shard_file[s][k].count = emitted[s][k].size
             /\ emitted[s][k].size > 0
       /\ Len(shard_file[s]) = Len(emitted[s])
       /\ (wpc[s] = "run") => position[s] = EndOfRecords(s)
       /\ (wpc[s] \in {"drain", "exited"})
            => shard_size[s] = EndOfRecords(s)

C31_Witness ==
    \E s \in Shards :
       /\ wpc[s] = "exited"
       /\ Len(emitted[s]) = 2
       /\ emitted[s][2].offset > 0
       /\ shard_size[s] = EndOfRecords(s)
       /\ pc = At("idle")
       /\ ~writers

\* the last record a shard writer emitted for the directory offset of its
\* k-th record
LastRecordFor(s, k) ==
    LET same == {j \in 1..Len(emitted[s]) :
                    emitted[s][j].directory_offset
                      = emitted[s][k].directory_offset}
    IN  emitted[s][CHOOSE j \in same : \A i \in same : i <= j]

\* C32: the indexer's sentinel is put on the queue only when every shard
\* writer has exited and is the last item of the queue; when the indexer has
\* returned the queue is empty, nothing waits in the file buffer, and every
\* record any shard writer emitted is in the index file (the entry of its
\* directory offset holds the encoding of the last record emitted for it).
C32_SentinelAfterAllRecords ==
    /\ \A i \in 1..Len(upqueue) :
          (upqueue[i].kind = "None")
          => /\ i = Len(upqueue)
             /\ \A s \in Shards : wpc[s] = "exited"
    /\ (dwpc = "exited")
       => /\ upqueue = <<>>
          /\ index_buf = <<>>
          /\ \A s \in Shards : \A k \in 1..Len(emitted[s]) :
                EntryBytes(self, index_file, emitted[s][k].directory_offset)
                  = encode_directory_entry(self, LastRecordFor(s, k).offset,
                                           LastRecordFor(s, k).size)

C32_Witness ==
    /\ dwpc = "exited"
    /\ Len(self.block_filenames) = 2
    /\ \A s \in Shards : emitted[s] # <<>>
    /\ pc = At("join_directory_writer")

\* the records emitted so far for one directory offset, by any shard writer
RecordsFor(off) ==
    {rec \in UNION {{emitted[s][k] : k \in 1..Len(emitted[s])} :
                       s \in AllShards} :
        rec.directory_offset = off}

\* C33: the indexer changes nothing but the directory_entry_size bytes at
\* index_base + d * directory_entry_size of the records it processes: in
\* every state after create the header, the two length fields and the JSON
\* metadata are as create() wrote them, the table is a whole number of
\* entries, and the entry of every directory offset is all zero or the
\* encoding of a record emitted for that very offset, also when the record's
\* file_offset does not fit n_offset_bits.
C33_IndexerFrame ==
    (pc.at # "new")
    => /\ [index_file EXCEPT !.table = <<>>]
            = CreatedFile(self)
       /\ Len(index_file.table) % self.directory_entry_size = 0
       /\ \A off \in 0..(Len(index_file.table) \div
                              self.directory_entry_size) :
             \/ EntryBytes(self, index_file, off) = ZeroEntry(self)
             \/ \E rec \in RecordsFor(off) :
                   EntryBytes(self, index_file, off)
                     = encode_directory_entry(self, rec.offset, rec.size)

C33_Witness ==
    /\ Quiescent
    /\ \E s \in Shards :
          /\ Len(emitted[s]) = 2
          /\ emitted[s][1].directory_offset # emitted[s][2].directory_offset
          /\ emitted[s][2].offset >= Pow(2, self.n_offset_bits)
          /\ \A k \in 1..2 :
                EntryBytes(self, index_file, emitted[s][k].directory_offset)
                  = encode_directory_entry(self, emitted[s][k].offset,
                                           emitted[s][k].size)
    /\ \E off \in 0..(Len(index_file.table) \div self.directory_entry_size) :
          EntryBytes(self, index_file, off) = ZeroEntry(self)

\* C34: whenever the client is between two calls on the handle, the shard
\* writers of all block files and the indexer are running (after
\* start_writer_processes or the first write_block), or none of them is
\* (before any start and after close).
C34_WorkersAllOrNone ==
    (pc = At("idle"))
    => IF writers
       THEN /\ \A s \in Shards : wpc[s] = "run"
            /\ dwpc = "run"
       ELSE /\ \A s \in AllShards : wpc[s] \in {"none", "exited"}
            /\ dwpc \in {"none", "exited"}

\* C35: when the two accepted writes of a closed store went to the same
\* coordinate, payload A then payload B, both were handled by the same shard
\* writer, the shard file holds A and then B, read_block at the coordinate
\* returns B, and no directory entry refers to the bytes of A.
C35_RewriteReadsLast ==
    (/\ Quiescent
     /\ Len(accepted) = 2
     /\ <<accepted[1].x, accepted[1].y, accepted[1].z>>
          = <<accepted[2].x, accepted[2].y, accepted[2].z>>)
    => LET c == <<accepted[2].x, accepted[2].y, accepted[2].z>>
           s == ShardOf(self, accepted[2].directory_offset)
           A == AsType(self, accepted[1].block)
           B == AsType(self, accepted[2].block)
       IN  /\ accepted[1].directory_offset = accepted[2].directory_offset
           /\ Len(emitted[s]) = 2
           /\ Len(shard_file[s]) = 2
           /\ shard_file[s][1].a = A /\ shard_file[s][1].start = 0
           /\ shard_file[s][2].a = B
           /\ shard_file[s][2].start = shard_file[s][1].count
           /\ shard_size[s] = shard_file[s][2].start + shard_file[s][2].count
           /\ ReadWith(self, c) = B
           /\ \A off \in DirOffsets(self) :
                 decode_directory_entry(self, EntryBytes(self, index_file, off))
                   # <<shard_file[s][1].start, shard_file[s][1].count>>

\* C36: a read_block step changes nothing but the caller's result: the index
\* file bytes (written and buffered), the shard file bytes, the queues, the
\* handle and the state of every worker are as before the call, whatever the
\* coordinate and whether or not workers run; in particular it starts none.
C36_ReadBlockFrame ==
    [][(probe' # probe /\ probe'.kind = "read_block")
       => UNCHANGED <<self, index_file, index_buf, shard_file, shard_size,
                      writers, queue_depth, q_in, upqueue, wpc, position,
                      dwpc, pc, accepted, emitted>>]_vars

\* a read_block was made while the workers run with a message still queued
C36_Witness ==
    /\ probe.kind = "read_block"
    /\ writers
    /\ \E s \in Shards : q_in[s] # <<>> /\ wpc[s] = "run"
    /\ dwpc = "run"

====
